---- MODULE Spec2Model ----
(***************************************************************************)
(* recomp: an X11 compositing bridge.  Two programs live in the source     *)
(* tree: the library revision (src/compositor.rs with src/connection.rs)   *)
(* and the stand-alone revision (src/main.rs).  Both are modelled; the     *)
(* variable prog says which one a behaviour belongs to.                    *)
(*                                                                         *)
(* The display server, the GPU platform and the tokio scheduler are the    *)
(* environment: every reply, every error and every interleaving of the     *)
(* detached teardown task is a nondeterministic choice.                    *)
(***************************************************************************)
EXTENDS Integers, Sequences, FiniteSets, TLC

\* ------------------------------------------------------------------ bounds
\* Window identifiers the server may hand out are 0..MaxWin.
MaxWin == 2
\* Resource identifiers generate_id may return are 1..MaxId.
MaxId == 1
\* compositor.rs run loops forever; the model lets it render at most MaxIter times.
MaxIter == 2
\* The surface reports at most MaxCaps formats and at most MaxCaps alpha modes.
MaxCaps == 2
\* The owner calls run of main.rs at most MaxCalls times in one process.
MaxCalls == 3

\* ------------------------------------------------------- program constants
\* main.rs: `if I.fetch_add(1, Relaxed) > 200 { break; }`
LoopBound == 200
\* u16::MAX, the largest width_in_pixels / height_in_pixels of a Screen.
U16Max == 65535
\* i32::MAX, the largest screen number XcbDisplayHandle::new accepts.
I32Max == 2147483647

VARIABLES
    prog,        \* "compositor_rs" or "main_rs"
    pc,          \* position of the main task
    evs,         \* protocol history: requests issued and their outcomes
    log,         \* tracing records emitted, <<level, message>>
    root,        \* screen.root of the setup reply
    root_size,   \* (width_in_pixels, height_in_pixels)
    screen_num,  \* XConn.screen_num
    win_id,      \* overlay window of the get-overlay-window reply
    region,      \* id returned by generate_id
    caps,        \* surface.get_capabilities(&adapter)
    format,      \* selected surface format
    config,      \* Compositor.config
    applied,     \* configuration last applied by surface.configure
    resized,     \* arguments of the last resize call, <<>> before the first
    created,     \* how many surfaces and devices were created so far
    surface,     \* "none", "live", "destroyed"
    device,      \* "none", "live", "destroyed" (device and queue)
    arc,         \* owners of the XCB connection (strong count of XConn)
    connOpen,    \* the XCB connection is open
    newRes,      \* result of Compositor::new: "none", "Ok", "Err"
    newErr,      \* the step at which new failed
    runRes,      \* result of Compositor::run: "none", "Ok", "Err"
    renderRes,   \* result of the last render call
    nRender,     \* render calls made by run
    nPoll,       \* poll_for_event calls made by run
    frame,       \* what the last render call did on the GPU
    event,       \* the event run took from its poll, "none" while it took none
    I,           \* main.rs: static I: AtomicUsize
    calls,       \* calls of run made so far in this process
    taskpc,      \* detached teardown task: "none","unredirect","release","done","cancelled"
    runtime,     \* tokio runtime: "up" or "down"
    exitStatus   \* what main returned: "none", "Ok", "Err"

vars == <<prog, pc, evs, log, root, root_size, screen_num, win_id, region, caps,
          format, config, applied, resized, created, surface, device, arc, connOpen,
          newRes, newErr, runRes, renderRes, nRender, nPoll, frame, event, I,
          calls, taskpc, runtime, exitStatus>>

\* groups used in UNCHANGED clauses
setupVars == <<root, root_size, screen_num>>
gpuVars   == <<caps, format, config, applied, resized, created>>
runVars   == <<runRes, renderRes, nRender, nPoll, frame, event, I, calls>>
taskVars  == <<taskpc, runtime>>

Programs == {"compositor_rs", "main_rs"}
Windows  == 0..MaxWin
Dims     == {1, U16Max}

\* ------------------------------------------------------------ protocol log
\* One entry of the protocol history.  t is "req" (request issued), "ok" (reply
\* received / check passed), "err" (the server answered with an error) or
\* "sendfail" (the connection refused to send: nothing was issued).
Ev(t, r, a, m) == [t |-> t, r |-> r, a |-> a, m |-> m]

Outcomes == {"ok", "err", "sendfail"}

\* `conn.request(args).await?.reply().await?` and `.await?.check().await?`:
\* the history after the statement ran with outcome o.
Issued(h, r, a, m, o) ==
    IF o = "sendfail"
    THEN Append(h, Ev("sendfail", r, a, m))
    ELSE h \o <<Ev("req", r, a, m), Ev(o, r, a, m)>>

\* `conn.request(args).await` with the cookie dropped unchecked: the caller
\* sees whether the request was sent and nothing else; what the server
\* answers is never read.
SendOutcomes == {"ok", "sendfail"}

IssuedUnchecked(h, r, a, m, o) ==
    IF o = "sendfail"
    THEN Append(h, Ev("sendfail", r, a, m))
    ELSE Append(h, Ev("req", r, a, m))

Info(msg) == <<"info", msg>>
Warn(msg) == <<"warn", msg>>

\* ------------------------------------------------------------- GPU data
Formats    == {"Bgra8Unorm", "Bgra8UnormSrgb", "Rgba8UnormSrgb"}
AlphaModes == {"Opaque", "PreMultiplied"}

\* TextureFormat::is_srgb
is_srgb(f) == f \in {"Bgra8UnormSrgb", "Rgba8UnormSrgb"}

SeqsUpTo(S, n) == UNION {[1..k -> S] : k \in 0..n}

\* Faulty variant: the last sRGB format of the list is taken.
SelectFormat_LastSrgb(fs) ==
    LET srgb == {i \in 1..Len(fs) : is_srgb(fs[i])} IN
    IF srgb # {} THEN fs[CHOOSE i \in srgb : \A j \in srgb : i >= j]
    ELSE IF Len(fs) > 0 THEN fs[1]
    ELSE "none"

\* `formats.iter().filter(|f| f.is_srgb()).next().or_else(|| formats.get(0))`:
\* "none" stands for None.
SelectFormat(fs) ==
    LET srgb == {i \in 1..Len(fs) : is_srgb(fs[i])} IN
    IF srgb # {} THEN fs[CHOOSE i \in srgb : \A j \in srgb : i <= j]
    ELSE IF Len(fs) > 0 THEN fs[1]
    ELSE "none"

\* `alpha_modes.get(0).cloned()`
SelectAlphaMode(ms) == IF Len(ms) > 0 THEN ms[1] ELSE "none"

\* Faulty variant: width and height taken from the wrong components.
NewConfig_Swapped(fmt, size, alpha) ==
    [usage |-> "RENDER_ATTACHMENT",
     format |-> fmt,
     width |-> size[2],
     height |-> size[1],
     present_mode |-> "Fifo",
     alpha_mode |-> alpha,
     view_formats |-> <<>>,
     desired_maximum_frame_latency |-> 2]

\* The SurfaceConfiguration new builds.
NewConfig(fmt, size, alpha) ==
    [usage |-> "RENDER_ATTACHMENT",
     format |-> fmt,
     width |-> size[1],
     height |-> size[2],
     present_mode |-> "Fifo",
     alpha_mode |-> alpha,
     view_formats |-> <<>>,
     desired_maximum_frame_latency |-> 2]

NoConfig == NewConfig("none", <<0, 0>>, "none")

\* The clear colour of the render pass, in tenths: compositor.rs clears to
\* (0.1, 0.2, 0.5, 1.0), main.rs to (0.1, 0.2, 0.3, 1.0).
ClearColor(p) == IF p = "compositor_rs" THEN <<1, 2, 5, 10>> ELSE <<1, 2, 3, 10>>

\* What surface.get_current_texture() can answer.
AcquireResults == {"Ok", "Lost", "Outdated"}

\* Faulty variant: the frame is presented before the commands are submitted.
RenderFrame_PresentFirst(p, acq) ==
    IF acq = "Ok"
    THEN [acquire |-> "Ok",
          ops |-> <<"create_view", "create_command_encoder", "begin_render_pass",
                    "finish", "present", "submit">>,
          clear |-> ClearColor(p)]
    ELSE [acquire |-> acq, ops |-> <<>>, clear |-> <<>>]

\* Compositor::render with the frame acquisition answering acq: the GPU calls
\* it makes after the acquisition, in order, and the colour it clears to.
\* A failed acquisition returns through `?` before any of them.
RenderFrame(p, acq) ==
    IF acq = "Ok"
    THEN [acquire |-> "Ok",
          ops |-> <<"create_view", "create_command_encoder", "begin_render_pass",
                    "finish", "submit", "present">>,
          clear |-> ClearColor(p)]
    ELSE [acquire |-> acq, ops |-> <<>>, clear |-> <<>>]

\* The Result render returns.
RenderResult(acq) == IF acq = "Ok" THEN "Ok" ELSE "Err"

NoFrame == [acquire |-> "none", ops |-> <<>>, clear |-> <<>>]

\* --------------------------------------------------------------- Init
Init ==
    /\ prog \in Programs
    /\ pc = "connect"
    /\ evs = <<>>
    /\ log = IF prog = "main_rs" THEN <<Info("Connected to X11 server")>> ELSE <<>>
    /\ root = 0 /\ root_size = <<0, 0>> /\ screen_num = 0
    /\ win_id = 0 /\ region = 0
    /\ caps = [formats |-> <<>>, alpha_modes |-> <<>>]
    /\ format = "none"
    /\ config = NoConfig
    /\ applied = NoConfig
    /\ resized = <<>>
    /\ created = [surfaces |-> 0, devices |-> 0]
    /\ frame = NoFrame /\ event = "none"
    /\ surface = "none" /\ device = "none"
    /\ arc = 0 /\ connOpen = FALSE
    /\ newRes = "none" /\ newErr = "none"
    /\ runRes = "none" /\ renderRes = "none" /\ nRender = 0 /\ nPoll = 0 /\ I = 0
    /\ calls = 0
    /\ taskpc = "none" /\ runtime = "up"
    /\ exitStatus = "none"

\* --------------------------------------------------- Compositor::new
\* Faulty variant: the error path of new runs the teardown of Drop, as if the
\* Compositor had been constructed.
NewFails_Teardown(cause) ==
    /\ newRes' = "Err"
    /\ newErr' = cause
    /\ exitStatus' = "Err"
    /\ pc' = "drop"
    /\ surface' = IF surface = "live" THEN "destroyed" ELSE surface
    /\ device' = IF device = "live" THEN "destroyed" ELSE device
    /\ arc' = 0
    /\ connOpen' = FALSE

\* `?` inside new: new returns Err.  Its locals are dropped in reverse order of
\* declaration (surface before conn), the caller's `?` makes main return Err.
NewFails(cause) ==
    /\ newRes' = "Err"
    /\ newErr' = cause
    /\ exitStatus' = "Err"
    /\ pc' = "main_ret"
    /\ surface' = IF surface = "live" THEN "destroyed" ELSE surface
    /\ device' = IF device = "live" THEN "destroyed" ELSE device
    /\ arc' = 0
    /\ connOpen' = FALSE

\* new continues with its next statement.
NewGoes(next) ==
    /\ pc' = next
    /\ UNCHANGED <<newRes, newErr, exitStatus, surface, device, arc, connOpen>>

\* the same for the statements that create the surface or the device.
NewGoesGpu(next) ==
    /\ pc' = next
    /\ UNCHANGED <<newRes, newErr, exitStatus, arc, connOpen>>

\* XCBConnection::connect and the read of the setup reply.
New_connect ==
    /\ pc = "connect"
    /\ \/ /\ \E w \in Dims, h \in Dims : root_size' = <<w, h>>
          \* window ids are opaque: the root is taken to be the id 1
          /\ root' = 1
          /\ screen_num' = 0
          /\ arc' = 1
          /\ connOpen' = TRUE
          /\ pc' = "composite_query_version"
          /\ UNCHANGED <<newRes, newErr, exitStatus>>
       \/ /\ newRes' = "Err" /\ newErr' = "connect" /\ exitStatus' = "Err"
          /\ pc' = "main_ret"
          /\ UNCHANGED <<setupVars, arc, connOpen>>
    /\ UNCHANGED <<prog, evs, log, win_id, region, gpuVars, surface, device, runVars, taskVars>>

\* Faulty variant: the query is sent but its reply is not awaited.
New_composite_query_version_NoReply ==
    /\ pc = "composite_query_version"
    /\ evs' = Append(evs, Ev("req", "CompositeQueryVersion", <<999, 0>>, ""))
    /\ NewGoes(IF prog = "compositor_rs" THEN "xfixes_query_version"
                                         ELSE "get_overlay_window")
    /\ UNCHANGED <<prog, log, setupVars, win_id, region, gpuVars, runVars, taskVars>>

New_composite_query_version ==
    /\ pc = "composite_query_version"
    /\ \E o \in Outcomes :
         /\ evs' = Issued(evs, "CompositeQueryVersion", <<999, 0>>, "", o)
         /\ IF o = "ok"
            THEN /\ log' = Append(log, Info("Composite extension version"))
                 /\ NewGoes(IF prog = "compositor_rs" THEN "xfixes_query_version"
                                                      ELSE "get_overlay_window")
            ELSE /\ log' = log
                 /\ NewFails("CompositeQueryVersion")
    /\ UNCHANGED <<prog, setupVars, win_id, region, gpuVars, runVars, taskVars>>

\* Faulty variant: a failed XFixes query is ignored and new carries on.
New_xfixes_query_version_Ignored ==
    /\ pc = "xfixes_query_version"
    /\ \E o \in Outcomes :
         /\ evs' = Issued(evs, "XFixesQueryVersion", <<999, 0>>, "", o)
         /\ log' = Append(log, Info("XFixes extension version"))
         /\ NewGoes("damage_query_version")
    /\ UNCHANGED <<prog, setupVars, win_id, region, gpuVars, runVars, taskVars>>

New_xfixes_query_version ==
    /\ pc = "xfixes_query_version"
    /\ \E o \in Outcomes :
         /\ evs' = Issued(evs, "XFixesQueryVersion", <<999, 0>>, "", o)
         /\ IF o = "ok"
            THEN /\ log' = Append(log, Info("XFixes extension version"))
                 /\ NewGoes("damage_query_version")
            ELSE /\ log' = log
                 /\ NewFails("XFixesQueryVersion")
    /\ UNCHANGED <<prog, setupVars, win_id, region, gpuVars, runVars, taskVars>>

New_damage_query_version ==
    /\ pc = "damage_query_version"
    /\ \E o \in Outcomes :
         /\ evs' = Issued(evs, "DamageQueryVersion", <<999, 0>>, "", o)
         /\ IF o = "ok"
            THEN /\ log' = Append(log, Info("XDamage extension version"))
                 /\ NewGoes("redirect_subwindows")
            ELSE /\ log' = log
                 /\ NewFails("DamageQueryVersion")
    /\ UNCHANGED <<prog, setupVars, win_id, region, gpuVars, runVars, taskVars>>

\* Faulty variant: the redirect request is sent and its check is dropped.
New_redirect_subwindows_Unchecked ==
    /\ pc = "redirect_subwindows"
    /\ \E o \in Outcomes :
         /\ evs' = Issued(evs, "CompositeRedirectSubwindows", <<root>>, "AUTOMATIC", o)
         /\ NewGoes("get_overlay_window")
    /\ UNCHANGED <<prog, log, setupVars, win_id, region, gpuVars, runVars, taskVars>>

New_redirect_subwindows ==
    /\ pc = "redirect_subwindows"
    /\ \E o \in Outcomes :
         /\ evs' = Issued(evs, "CompositeRedirectSubwindows", <<root>>, "AUTOMATIC", o)
         /\ IF o = "ok"
            THEN NewGoes("get_overlay_window")
            ELSE NewFails("CompositeRedirectSubwindows")
    /\ UNCHANGED <<prog, log, setupVars, win_id, region, gpuVars, runVars, taskVars>>

\* The overlay window is whatever the reply carries; new does not inspect it.
\* compositor.rs logs it, main.rs does not.
New_get_overlay_window ==
    /\ pc = "get_overlay_window"
    /\ \E o \in Outcomes :
         /\ evs' = Issued(evs, "CompositeGetOverlayWindow", <<root>>, "", o)
         /\ IF o = "ok"
            THEN /\ \E w \in Windows : win_id' = w
                 /\ log' = IF prog = "compositor_rs"
                           THEN Append(log, Info("Overlay window"))
                           ELSE log
                 /\ NewGoes(IF prog = "compositor_rs" THEN "generate_id"
                                                      ELSE "create_surface")
            ELSE /\ win_id' = win_id
                 /\ log' = log
                 /\ NewFails("CompositeGetOverlayWindow")
    /\ UNCHANGED <<prog, setupVars, region, gpuVars, runVars, taskVars>>

New_generate_id ==
    /\ pc = "generate_id"
    /\ \/ /\ \E id \in 1..MaxId : region' = id
          /\ NewGoes("create_region")
       \/ /\ region' = region
          /\ NewFails("generate_id")
    /\ UNCHANGED <<prog, evs, log, setupVars, win_id, gpuVars, runVars, taskVars>>

New_create_region ==
    /\ pc = "create_region"
    /\ \E o \in Outcomes :
         /\ evs' = Issued(evs, "XFixesCreateRegion", <<region>>, "EMPTY", o)
         /\ IF o = "ok"
            THEN NewGoes("set_window_shape_region")
            ELSE NewFails("XFixesCreateRegion")
    /\ UNCHANGED <<prog, log, setupVars, win_id, region, gpuVars, runVars, taskVars>>

New_set_window_shape_region ==
    /\ pc = "set_window_shape_region"
    /\ \E o \in Outcomes :
         /\ evs' = Issued(evs, "XFixesSetWindowShapeRegion",
                          <<win_id, 0, 0, region>>, "INPUT", o)
         /\ IF o = "ok"
            THEN NewGoes("destroy_region")
            ELSE NewFails("XFixesSetWindowShapeRegion")
    /\ UNCHANGED <<prog, log, setupVars, win_id, region, gpuVars, runVars, taskVars>>

New_destroy_region ==
    /\ pc = "destroy_region"
    /\ \E o \in Outcomes :
         /\ evs' = Issued(evs, "XFixesDestroyRegion", <<region>>, "", o)
         /\ IF o = "ok"
            THEN NewGoes("create_surface")
            ELSE NewFails("XFixesDestroyRegion")
    /\ UNCHANGED <<prog, log, setupVars, win_id, region, gpuVars, runVars, taskVars>>

\* ------------------------------------------------ GPU surface creation
\* Faulty variant: the window id is handed over without the conversion to
\* NonZeroU32.
New_create_surface_AnyId ==
    /\ pc = "create_surface"
    /\ device' = device
    /\ IF screen_num > I32Max
       THEN /\ NewFails("screen.try_into")
       ELSE \/ /\ surface' = "live"
               /\ NewGoesGpu("request_adapter")
            \/ /\ NewFails("create_surface")
    /\ created' = IF surface' = "live"
                  THEN [created EXCEPT !.surfaces = @ + 1]
                  ELSE created
    /\ UNCHANGED <<prog, evs, log, setupVars, win_id, region, caps, format, config,
                   applied, resized, runVars, taskVars>>

\* create_surface_unsafe on the raw handles.  The screen number is converted to
\* i32 and the window id to NonZeroU32 (XcbWindowHandle::new); either
\* conversion failing, or the platform refusing the surface, fails new.
New_create_surface ==
    /\ pc = "create_surface"
    /\ device' = device
    /\ IF screen_num > I32Max
       THEN /\ NewFails("screen.try_into")
       ELSE IF win_id = 0
       THEN /\ NewFails("win_id.try_into")
       ELSE \/ /\ surface' = "live"
               /\ NewGoesGpu("request_adapter")
            \/ /\ NewFails("create_surface")
    /\ created' = IF surface' = "live"
                  THEN [created EXCEPT !.surfaces = @ + 1]
                  ELSE created
    /\ UNCHANGED <<prog, evs, log, setupVars, win_id, region, caps, format, config,
                   applied, resized, runVars, taskVars>>

New_request_adapter ==
    /\ pc = "request_adapter"
    /\ \/ NewGoes("request_device")
       \/ NewFails("No adapter found")
    /\ UNCHANGED <<prog, evs, log, setupVars, win_id, region, gpuVars, runVars, taskVars>>

New_request_device ==
    /\ pc = "request_device"
    /\ \/ /\ device' = "live"
          /\ surface' = surface
          /\ created' = [created EXCEPT !.devices = @ + 1]
          /\ NewGoesGpu("get_capabilities")
       \/ /\ created' = created
          /\ NewFails("request_device")
    /\ UNCHANGED <<prog, evs, log, setupVars, win_id, region, caps, format, config,
                   applied, resized, runVars, taskVars>>

New_get_capabilities ==
    /\ pc = "get_capabilities"
    /\ \E fs \in SeqsUpTo(Formats, MaxCaps), ms \in SeqsUpTo(AlphaModes, MaxCaps) :
         caps' = [formats |-> fs, alpha_modes |-> ms]
    /\ NewGoes("select_format")
    /\ UNCHANGED <<prog, evs, log, setupVars, win_id, region, format, config, applied,
                   resized, created, runVars, taskVars>>

New_select_format ==
    /\ pc = "select_format"
    /\ IF SelectFormat(caps.formats) = "none"
       THEN /\ format' = format
            /\ NewFails("No sRGB surface format found")
       ELSE /\ format' = SelectFormat(caps.formats)
            /\ NewGoes("configure")
    /\ UNCHANGED <<prog, evs, log, setupVars, win_id, region, caps, config, applied,
                   resized, created, runVars, taskVars>>

\* Alpha mode selection, the configuration record, surface.configure and
\* Ok(Self { .. }).
New_configure ==
    /\ pc = "configure"
    /\ IF SelectAlphaMode(caps.alpha_modes) = "none"
       THEN /\ UNCHANGED <<config, applied>>
            /\ NewFails("No supported usage found")
       ELSE /\ config' = NewConfig(format, root_size, SelectAlphaMode(caps.alpha_modes))
            /\ applied' = config'
            /\ newRes' = "Ok"
            /\ pc' = "live"
            /\ UNCHANGED <<newErr, exitStatus, surface, device, arc, connOpen>>
    \* the locals capabilities and format end with the call
    /\ caps' = [formats |-> <<>>, alpha_modes |-> <<>>]
    /\ format' = "none"
    /\ UNCHANGED <<prog, evs, log, setupVars, win_id, region, resized, created,
                   runVars, taskVars>>

\* --------------------------------------------------- Compositor::resize
\* The arguments the owner may pass to resize: u16 values, zero included.
ResizeDims == {0, 1, U16Max}

\* Faulty variant: the fields are overwritten but surface.configure is not
\* called again.
Resize_NotApplied ==
    /\ pc = "live"
    /\ \E w \in ResizeDims, h \in ResizeDims :
         /\ resized' = <<w, h>>
         /\ config' = [config EXCEPT !.width = w, !.height = h]
    /\ UNCHANGED <<prog, pc, evs, log, setupVars, win_id, region, caps, format, applied,
                   created, surface, device, arc, connOpen, newRes, newErr, runVars,
                   taskVars, exitStatus>>

\* resize(&mut self, width, height) on a constructed Compositor that is not
\* borrowed by run: the two fields of config are overwritten and the
\* configuration is handed to surface.configure with the same device.
Resize ==
    /\ pc = "live"
    /\ \E w \in ResizeDims, h \in ResizeDims :
         /\ resized' = <<w, h>>
         /\ config' = [config EXCEPT !.width = w, !.height = h]
    /\ applied' = config'
    /\ UNCHANGED <<prog, pc, evs, log, setupVars, win_id, region, caps, format, created,
                   surface, device, arc, connOpen, newRes, newErr, runVars, taskVars,
                   exitStatus>>

\* ------------------------------------------------------ Compositor::run
\* The event kinds a poll can deliver: the ones run names, two it does not
\* name (they reach the catch-all arm), Error and Unknown.
NamedKinds ==
    {"ButtonPress", "CreateNotify", "DestroyNotify", "EnterNotify", "FocusIn",
     "FocusOut", "KeyPress", "KeyRelease", "LeaveNotify", "MapNotify", "MapRequest",
     "MappingNotify", "PropertyNotify", "ReparentNotify", "UnmapNotify",
     "VisibilityNotify", "DamageNotify"}
OtherKinds == {"MotionNotify", "ConfigureNotify"}
EventKinds == NamedKinds \cup OtherKinds \cup {"Error", "Unknown"}

\* Faulty variant: the Unknown arm warns.
Dispatch_UnknownWarns(ev) ==
    IF ev = "Unknown" THEN Warn("Unknown event")
    ELSE IF ev = "Error" THEN Warn("X11 Error")
    ELSE IF ev \in NamedKinds THEN Info(ev)
    ELSE Warn("Unhandled event")

\* The `match ev { .. }` of run: the record it logs.
Dispatch(ev) ==
    IF ev = "Unknown" THEN Info("Unknown event")
    ELSE IF ev = "Error" THEN Warn("X11 Error")
    ELSE IF ev \in NamedKinds THEN Info(ev)
    ELSE Warn("Unhandled event")

\* The owner of a constructed Compositor calls run.
Owner_run ==
    /\ pc = "live"
    /\ pc' = "render"
    /\ calls' = calls + 1
    /\ UNCHANGED <<prog, evs, log, setupVars, win_id, region, gpuVars, surface, device,
                   arc, connOpen, newRes, newErr, runRes, renderRes, nRender, nPoll,
                   frame, event, I, taskVars, exitStatus>>

\* Faulty variant: `self.render().ok();` as in main.rs, the error is dropped.
Run_render_Ignored ==
    /\ prog = "compositor_rs"
    /\ pc = "render"
    /\ nRender < MaxIter
    /\ nRender' = nRender + 1
    /\ \E acq \in AcquireResults :
         /\ frame' = RenderFrame(prog, acq)
         /\ renderRes' = RenderResult(acq)
    /\ pc' = "poll"
    /\ UNCHANGED <<prog, evs, log, setupVars, win_id, region, gpuVars, surface, device,
                   arc, connOpen, newRes, newErr, runRes, nPoll, event, I, calls, taskVars,
                   exitStatus>>

\* compositor.rs: `self.render()?;`
Run_render ==
    /\ prog = "compositor_rs"
    /\ pc = "render"
    /\ nRender < MaxIter
    /\ nRender' = nRender + 1
    /\ \E acq \in AcquireResults :
         /\ frame' = RenderFrame(prog, acq)
         /\ renderRes' = RenderResult(acq)
    /\ IF renderRes' = "Ok"
       THEN /\ pc' = "poll"
            /\ UNCHANGED <<runRes, exitStatus>>
       ELSE /\ runRes' = "Err"
            /\ exitStatus' = "Err"
            /\ pc' = "drop"
    /\ UNCHANGED <<prog, evs, log, setupVars, win_id, region, gpuVars, surface, device,
                   arc, connOpen, newRes, newErr, nPoll, event, I, calls, taskVars>>

\* Faulty variant: the counter test that is commented out in run is active,
\* an empty poll ends the loop once the loop has turned before.
Run_poll_Counted ==
    /\ prog = "compositor_rs"
    /\ pc = "poll"
    /\ nPoll' = nPoll + 1
    /\ \/ /\ runRes' = "Err"
          /\ exitStatus' = "Err"
          /\ pc' = "drop"
          /\ UNCHANGED <<log, event>>
       \/ /\ IF nPoll > 0
             THEN runRes' = "Ok" /\ pc' = "drop"
             ELSE runRes' = runRes /\ pc' = "render"
          /\ UNCHANGED <<exitStatus, log, event>>
       \/ /\ \E ev \in EventKinds :
               /\ event' = ev
               /\ log' = Append(log, Dispatch(ev))
          /\ runRes' = "Ok"
          /\ pc' = "drop"
          /\ exitStatus' = exitStatus
    /\ UNCHANGED <<prog, evs, setupVars, win_id, region, gpuVars, surface, device,
                   arc, connOpen, newRes, newErr, renderRes, nRender, frame, I, calls, taskVars>>

\* Faulty variant: the `break` after the match is missing, the loop goes on
\* to the next render after an event was dispatched.
Run_poll_Continue ==
    /\ prog = "compositor_rs"
    /\ pc = "poll"
    /\ nPoll' = nPoll + 1
    /\ \/ /\ runRes' = "Err"
          /\ exitStatus' = "Err"
          /\ pc' = "drop"
          /\ UNCHANGED <<log, event>>
       \/ /\ pc' = "render"
          /\ UNCHANGED <<runRes, exitStatus, log, event>>
       \/ /\ \E ev \in EventKinds :
               /\ event' = ev
               /\ log' = Append(log, Dispatch(ev))
          /\ pc' = "render"
          /\ UNCHANGED <<runRes, exitStatus>>
    /\ UNCHANGED <<prog, evs, setupVars, win_id, region, gpuVars, surface, device,
                   arc, connOpen, newRes, newErr, renderRes, nRender, frame, I, calls, taskVars>>

\* compositor.rs: `match self.conn.poll_for_event()? { .. }`
Run_poll ==
    /\ prog = "compositor_rs"
    /\ pc = "poll"
    /\ nPoll' = nPoll + 1
    /\ \/ /\ runRes' = "Err"
          /\ exitStatus' = "Err"
          /\ pc' = "drop"
          /\ UNCHANGED <<log, event>>
       \/ /\ pc' = "render"
          /\ UNCHANGED <<runRes, exitStatus, log, event>>
       \/ /\ \E ev \in EventKinds :
               /\ event' = ev
               /\ log' = Append(log, Dispatch(ev))
          /\ runRes' = "Ok"
          /\ pc' = "drop"
          /\ exitStatus' = exitStatus
    /\ UNCHANGED <<prog, evs, setupVars, win_id, region, gpuVars, surface, device,
                   arc, connOpen, newRes, newErr, renderRes, nRender, frame, I, calls, taskVars>>

\* Faulty variant: the loop stops as soon as the counter reaches the bound
\* (`>=` for `>`), one turn early.
Main_run_iteration_AtBound ==
    /\ prog = "main_rs"
    /\ pc = "render"
    /\ nRender' = nRender + 1
    /\ \E acq \in AcquireResults :
         /\ frame' = RenderFrame(prog, acq)
         /\ renderRes' = RenderResult(acq)
    /\ I' = I + 1
    /\ IF I >= LoopBound
       THEN /\ runRes' = "Ok"
            /\ pc' = "release_overlay_window"
       ELSE /\ runRes' = runRes
            /\ pc' = "render"
    /\ UNCHANGED <<prog, evs, log, setupVars, win_id, region, gpuVars, surface, device,
                   arc, connOpen, newRes, newErr, nPoll, event, calls, taskVars,
                   exitStatus>>

\* Faulty variant: the counter is a local of run, it starts from zero in
\* every call.
Main_run_iteration_LocalCounter ==
    /\ prog = "main_rs"
    /\ pc = "render"
    /\ nRender' = nRender + 1
    /\ \E acq \in AcquireResults :
         /\ frame' = RenderFrame(prog, acq)
         /\ renderRes' = RenderResult(acq)
    /\ IF I > LoopBound
       THEN /\ runRes' = "Ok"
            /\ I' = 0
            /\ pc' = "release_overlay_window"
       ELSE /\ runRes' = runRes
            /\ I' = I + 1
            /\ pc' = "render"
    /\ UNCHANGED <<prog, evs, log, setupVars, win_id, region, gpuVars, surface, device,
                   arc, connOpen, newRes, newErr, nPoll, event, calls, taskVars,
                   exitStatus>>

\* main.rs: one turn of the loop, `self.render().ok();` and the test of the
\* static counter (fetch_add returns the value before the increment).  The
\* result of render is discarded, whatever it is.
Main_run_iteration ==
    /\ prog = "main_rs"
    /\ pc = "render"
    /\ nRender' = nRender + 1
    /\ \E acq \in AcquireResults :
         /\ frame' = RenderFrame(prog, acq)
         /\ renderRes' = RenderResult(acq)
    /\ I' = I + 1
    /\ IF I > LoopBound
       THEN /\ runRes' = "Ok"
            /\ pc' = "release_overlay_window"
       ELSE /\ runRes' = runRes
            /\ pc' = "render"
    /\ UNCHANGED <<prog, evs, log, setupVars, win_id, region, gpuVars, surface, device,
                   arc, connOpen, newRes, newErr, nPoll, event, calls, taskVars,
                   exitStatus>>

\* A call of main.rs run has returned and the Compositor is still alive: its
\* owner calls run once more (run is a public method taking &self).
Owner_run_again ==
    /\ prog = "main_rs"
    /\ pc = "release_overlay_window"
    /\ calls < MaxCalls
    /\ calls' = calls + 1
    /\ runRes' = "none"
    /\ pc' = "render"
    /\ UNCHANGED <<prog, evs, log, setupVars, win_id, region, gpuVars, surface, device,
                   arc, connOpen, newRes, newErr, renderRes, nRender, nPoll, frame,
                   event, I, taskVars, exitStatus>>

\* main.rs main: `session.conn.composite_release_overlay_window(..).await?;`
Main_release_overlay_window ==
    /\ prog = "main_rs"
    /\ pc = "release_overlay_window"
    /\ \E o \in SendOutcomes :
         /\ evs' = IssuedUnchecked(evs, "CompositeReleaseOverlayWindow", <<win_id>>, "", o)
         /\ exitStatus' = IF o = "sendfail" THEN "Err" ELSE exitStatus
    /\ pc' = "glue_conn"
    /\ UNCHANGED <<prog, log, setupVars, win_id, region, gpuVars, surface, device,
                   arc, connOpen, newRes, newErr, runVars, taskVars>>

\* ------------------------------------------------- destruction, teardown
\* The owner lets a constructed Compositor go out of scope without running it.
Owner_drop ==
    /\ prog = "compositor_rs"
    /\ pc = "live"
    /\ pc' = "drop"
    /\ UNCHANGED <<prog, evs, log, setupVars, win_id, region, gpuVars, surface, device,
                   arc, connOpen, newRes, newErr, runVars, taskVars, exitStatus>>

\* Faulty variant: drop blocks until both teardown requests were sent.
Drop_drop_Blocking ==
    /\ pc = "drop"
    /\ runtime = "up"
    /\ evs' = evs \o <<Ev("req", "CompositeUnredirectSubwindows", <<root>>, "AUTOMATIC"),
                       Ev("req", "CompositeReleaseOverlayWindow", <<win_id>>, "")>>
    /\ taskpc' = "done"
    /\ pc' = "glue_conn"
    /\ UNCHANGED <<prog, log, setupVars, win_id, region, gpuVars, surface, device,
                   arc, connOpen, newRes, newErr, runVars, runtime, exitStatus>>

\* Drop::drop of compositor.rs: clone the connection, spawn the task, return.
Drop_drop ==
    /\ pc = "drop"
    /\ runtime = "up"
    /\ arc' = arc + 1
    /\ taskpc' = "unredirect"
    /\ pc' = "glue_conn"
    /\ UNCHANGED <<prog, evs, log, setupVars, win_id, region, gpuVars, surface, device,
                   connOpen, newRes, newErr, runVars, runtime, exitStatus>>

\* Drop glue, fields in declaration order.  conn is the first field: this owner
\* of the connection goes, and the connection closes with its last owner.
Glue_conn ==
    /\ pc = "glue_conn"
    /\ arc' = arc - 1
    /\ connOpen' = (arc - 1 > 0)
    /\ pc' = "glue_surface"
    /\ UNCHANGED <<prog, evs, log, setupVars, win_id, region, gpuVars, surface, device,
                   newRes, newErr, runVars, taskVars, exitStatus>>

\* Then surface, device, queue and config.
Glue_surface ==
    /\ pc = "glue_surface"
    /\ surface' = "destroyed"
    /\ device' = "destroyed"
    /\ pc' = "main_ret"
    /\ UNCHANGED <<prog, evs, log, setupVars, win_id, region, gpuVars, arc, connOpen,
                   newRes, newErr, runVars, taskVars, exitStatus>>

\* The detached task, first request.  Only the send is awaited; its error is
\* turned into None by `.ok()`.
Task_unredirect_subwindows ==
    /\ taskpc = "unredirect"
    /\ runtime = "up"
    /\ \E o \in SendOutcomes :
         evs' = IssuedUnchecked(evs, "CompositeUnredirectSubwindows", <<root>>,
                                "AUTOMATIC", o)
    /\ taskpc' = "release"
    /\ UNCHANGED <<prog, pc, log, setupVars, win_id, region, gpuVars, surface, device,
                   arc, connOpen, newRes, newErr, runVars, runtime, exitStatus>>

\* The detached task, second request; the task ends and its clone of the
\* connection is dropped.
Task_release_overlay_window ==
    /\ taskpc = "release"
    /\ runtime = "up"
    /\ \E o \in SendOutcomes :
         evs' = IssuedUnchecked(evs, "CompositeReleaseOverlayWindow", <<win_id>>, "", o)
    /\ taskpc' = "done"
    /\ arc' = arc - 1
    /\ connOpen' = (arc - 1 > 0)
    /\ UNCHANGED <<prog, pc, log, setupVars, win_id, region, gpuVars, surface, device,
                   newRes, newErr, runVars, runtime, exitStatus>>

\* main returns: the runtime shuts down and drops every task that has not
\* finished, the process exits.
Runtime_shutdown ==
    /\ pc = "main_ret"
    /\ runtime = "up"
    /\ runtime' = "down"
    /\ pc' = "exited"
    /\ exitStatus' = IF exitStatus = "none" THEN "Ok" ELSE exitStatus
    /\ IF taskpc \in {"unredirect", "release"}
       THEN /\ taskpc' = "cancelled"
            /\ arc' = arc - 1
            /\ connOpen' = (arc - 1 > 0)
       ELSE UNCHANGED <<taskpc, arc, connOpen>>
    /\ UNCHANGED <<prog, evs, log, setupVars, win_id, region, gpuVars, surface, device,
                   newRes, newErr, runVars>>

\* ------------------------------------------------------------------ Spec
\* The statements of Compositor::new.
NextNew ==
    \/ New_connect
    \/ New_composite_query_version
    \/ New_xfixes_query_version
    \/ New_damage_query_version
    \/ New_redirect_subwindows
    \/ New_get_overlay_window
    \/ New_generate_id
    \/ New_create_region
    \/ New_set_window_shape_region
    \/ New_destroy_region
    \/ New_create_surface
    \/ New_request_adapter
    \/ New_request_device
    \/ New_get_capabilities
    \/ New_select_format
    \/ New_configure

\* Construction, run, destruction: the life of one Compositor in one process.
Next ==
    \/ NextNew
    \/ Owner_run
    \/ Run_render
    \/ Run_poll
    \/ Main_run_iteration
    \/ Main_release_overlay_window
    \/ Owner_drop
    \/ Drop_drop
    \/ Glue_conn
    \/ Glue_surface
    \/ Task_unredirect_subwindows
    \/ Task_release_overlay_window
    \/ Runtime_shutdown

Spec == Init /\ [][Next]_vars

\* Construction followed by any sequence of resize calls.
NextSurface ==
    \/ NextNew
    \/ Resize

SpecSurface == Init /\ [][NextSurface]_vars

\* The loop of main.rs run contains no await: once run is polled, its turns
\* follow one another without yielding to the executor.
SpecRun == Spec /\ WF_vars(Main_run_iteration)

\* Construction followed by any number of calls of run, one after the other.
NextCalls ==
    \/ NextNew
    \/ Owner_run
    \/ Run_render
    \/ Run_poll
    \/ Main_run_iteration
    \/ Owner_run_again

SpecCalls == Init /\ [][NextCalls]_vars

\* ------------------------------------------------------------ properties
\* The program makes the call that issues request r at entry i of the history
\* (the request goes out, or the connection refuses to send it).
IssuedAt(i) == evs[i].t \in {"req", "sendfail"}
FailedAt(i) == evs[i].t \in {"err", "sendfail"}

\* The reply to (or the passed check of) request q was received before entry i.
OkBefore(q, i) == \E j \in 1..(i - 1) : evs[j].t = "ok" /\ evs[j].r = q

Count(r) == Cardinality({i \in DOMAIN evs : evs[i].t = "req" /\ evs[i].r = r})

CompositeRequests ==
    {"CompositeRedirectSubwindows", "CompositeGetOverlayWindow",
     "CompositeUnredirectSubwindows", "CompositeReleaseOverlayWindow"}
XFixesRequests ==
    {"XFixesCreateRegion", "XFixesSetWindowShapeRegion", "XFixesDestroyRegion"}
TeardownRequests ==
    {"CompositeUnredirectSubwindows", "CompositeReleaseOverlayWindow"}

\* C1: in both programs, every Composite request other than the version query
\* and every XFixes request other than the version query is issued only after
\* the version-query reply of that same extension has been received.
C1_NegotiatedBeforeUse ==
    \A i \in DOMAIN evs :
        IssuedAt(i) =>
            /\ evs[i].r \in CompositeRequests => OkBefore("CompositeQueryVersion", i)
            /\ evs[i].r \in XFixesRequests => OkBefore("XFixesQueryVersion", i)

\* C1 witness: the library revision has issued requests of both extensions,
\* the last XFixes request of new and a Composite request of the teardown task.
C1_Witness ==
    /\ prog = "compositor_rs"
    /\ Count("XFixesDestroyRegion") = 1
    /\ Count("CompositeReleaseOverlayWindow") = 1

QueryOrder == <<"CompositeQueryVersion", "XFixesQueryVersion", "DamageQueryVersion">>
QueryRank(r) == CHOOSE k \in 1..3 : QueryOrder[k] = r
IsQuery(r) == \E k \in 1..3 : QueryOrder[k] = r

\* C2: compositor.rs new issues the version queries in the order Composite,
\* XFixes, Damage, each one only after the replies to all earlier ones, each
\* at most once; a query that fails (not sent, or answered with an error) is
\* the last entry of the protocol history for ever and new has returned Err.
C2_QueriesInOrderFailFast ==
    prog = "compositor_rs" =>
        /\ \A i \in DOMAIN evs :
             (IssuedAt(i) /\ IsQuery(evs[i].r)) =>
                 /\ \A k \in 1..(QueryRank(evs[i].r) - 1) : OkBefore(QueryOrder[k], i)
                 /\ \A j \in DOMAIN evs :
                      (IssuedAt(j) /\ evs[j].r = evs[i].r) => j = i
        /\ \A i \in DOMAIN evs :
             (FailedAt(i) /\ IsQuery(evs[i].r)) =>
                 /\ i = Len(evs)
                 /\ newRes = "Err"
                 /\ pc \in {"main_ret", "exited"}

\* C2 witness: the third query was answered with an error after the first two
\* succeeded, and the process has exited.
C2_Witness ==
    /\ prog = "compositor_rs"
    /\ pc = "exited"
    /\ Len(evs) = 6
    /\ evs[6] = Ev("err", "DamageQueryVersion", <<999, 0>>, "")

\* C3 (as claimed): whatever the server replies to get-overlay-window, the
\* overlay window of a constructed Compositor is nonzero and is not the root.
C3_OverlayNonzeroNotRoot ==
    (prog = "compositor_rs" /\ newRes = "Ok") => (win_id # 0 /\ win_id # root)

AcquireOrder ==
    <<"CompositeRedirectSubwindows", "CompositeGetOverlayWindow", "XFixesCreateRegion",
      "XFixesSetWindowShapeRegion", "XFixesDestroyRegion">>
AcquireRank(r) == CHOOSE k \in 1..5 : AcquireOrder[k] = r
IsAcquire(r) == \E k \in 1..5 : AcquireOrder[k] = r

\* The arguments new passes with request r.
AcquireArgs(r) ==
    IF r = "CompositeRedirectSubwindows" THEN [a |-> <<root>>, m |-> "AUTOMATIC"]
    ELSE IF r = "CompositeGetOverlayWindow" THEN [a |-> <<root>>, m |-> ""]
    ELSE IF r = "XFixesCreateRegion" THEN [a |-> <<region>>, m |-> "EMPTY"]
    ELSE IF r = "XFixesSetWindowShapeRegion"
         THEN [a |-> <<win_id, 0, 0, region>>, m |-> "INPUT"]
    ELSE [a |-> <<region>>, m |-> ""]

\* C4: compositor.rs new issues redirect-subwindows(root, automatic),
\* get-overlay-window(root), create-region(empty), set-window-shape-region(
\* overlay, input, region), destroy-region in this order, each only after the
\* check (or reply) of all earlier ones passed; when the redirect request
\* fails, new has returned Err and the overlay window is never requested.
C4_AcquireOrder ==
    prog = "compositor_rs" =>
        /\ \A i \in DOMAIN evs :
             (IssuedAt(i) /\ IsAcquire(evs[i].r)) =>
                 /\ \A k \in 1..(AcquireRank(evs[i].r) - 1) : OkBefore(AcquireOrder[k], i)
                 /\ evs[i].a = AcquireArgs(evs[i].r).a
                 /\ evs[i].m = AcquireArgs(evs[i].r).m
        /\ \A i \in DOMAIN evs :
             (FailedAt(i) /\ evs[i].r = "CompositeRedirectSubwindows") =>
                 /\ newRes = "Err"
                 /\ \A j \in DOMAIN evs : evs[j].r # "CompositeGetOverlayWindow"

\* C4 witness: all five requests went out and the last one passed its check.
C4_Witness ==
    /\ prog = "compositor_rs"
    /\ \E i \in DOMAIN evs : evs[i].t = "ok" /\ evs[i].r = "XFixesDestroyRegion"

\* C5 (as claimed): a failed request of the input-shape step does not fail
\* new, and it is reported at warning level.
C5_ShapeFailureNonFatal ==
    \A i \in DOMAIN evs :
        (FailedAt(i) /\ evs[i].r \in XFixesRequests) =>
            /\ newRes # "Err"
            /\ \E k \in DOMAIN log : log[k][1] = "warn"

\* C6 (as claimed): a Compositor issues at most one unredirect-subwindows and
\* at most one release-overlay-window request, and by the time the process
\* has exited it has issued exactly one of each.
C6_TeardownExactlyOnce ==
    newRes = "Ok" =>
        /\ \A r \in TeardownRequests : Count(r) <= 1
        /\ pc = "exited" => \A r \in TeardownRequests : Count(r) = 1

\* C7: Drop::drop returns with the teardown task merely spawned: the step
\* that leaves drop sends nothing and leaves the task before its first request.
C7_DropDoesNotWait ==
    [][(pc = "drop" /\ pc' # "drop") => (taskpc' = "unredirect" /\ evs' = evs)]_vars

\* C7 witness: the process has exited, the runtime dropped the task, and the
\* unredirect-subwindows request of the dropped Compositor was never sent.
C7_Witness ==
    /\ prog = "compositor_rs"
    /\ newRes = "Ok"
    /\ pc = "exited"
    /\ taskpc = "cancelled"
    /\ \A i \in DOMAIN evs : evs[i].r \notin TeardownRequests

\* C8 (as claimed): while the surface of a constructed Compositor is live the
\* XCB connection is open, so the surface is destroyed before the connection
\* is closed.
C8_SurfaceBeforeConnection ==
    (prog = "compositor_rs" /\ surface = "live") => connOpen

\* C9 (as claimed): the teardown task issues release-overlay-window whatever
\* became of unredirect-subwindows, a teardown failure does not reach the exit
\* status, and every teardown failure is logged.
C9_TeardownBestEffortLogged ==
    prog = "compositor_rs" =>
        /\ taskpc = "done" =>
             \E i \in DOMAIN evs : IssuedAt(i) /\ evs[i].r = "CompositeReleaseOverlayWindow"
        /\ (pc = "exited" /\ exitStatus = "Err") => (newRes = "Err" \/ runRes = "Err")
        /\ \A i \in DOMAIN evs :
             (FailedAt(i) /\ evs[i].r \in TeardownRequests) =>
                 \E k \in DOMAIN log : log[k][1] \in {"warn", "error"}

\* C10: in compositor.rs run every iteration is one render followed by one
\* poll, the next iteration starts only when the poll of the previous one is
\* done, and a failed render ends run with Err before the poll of that
\* iteration and before any further iteration.
C10_RenderThenPoll ==
    prog = "compositor_rs" =>
        /\ nPoll <= nRender /\ nRender <= nPoll + 1
        /\ pc = "render" => (nRender = nPoll /\ renderRes # "Err")
        /\ pc = "poll" => (nRender = nPoll + 1 /\ renderRes = "Ok")
        /\ renderRes = "Err" =>
             /\ runRes = "Err"
             /\ nRender = nPoll + 1
             /\ pc \notin {"render", "poll"}

\* C10 witness: the second render failed after one complete iteration.
C10_Witness ==
    /\ prog = "compositor_rs"
    /\ renderRes = "Err"
    /\ nRender = 2
    /\ nPoll = 1

\* The loop of run is Running while it is at its render or its poll statement,
\* and Stopped once run has returned.
Running == pc \in {"render", "poll"}
Stopped == runRes # "none"

\* C11: compositor.rs run starts Running and handles at most one event: the
\* step that receives an event, of any kind, dispatches it once (one record is
\* appended to the log), makes run return Ok and leaves the loop; once run has
\* returned nothing renders, polls, dispatches or logs any more.
C11_RunStopsAfterOneEvent ==
    /\ [](prog = "compositor_rs" =>
            /\ Running => ~Stopped /\ event = "none"
            /\ runRes = "Ok" <=> event # "none")
    /\ [][prog = "compositor_rs" =>
            /\ event' # event =>
                  /\ Running /\ event = "none"
                  /\ log' = Append(log, Dispatch(event'))
                  /\ runRes' = "Ok"
                  /\ ~Running'
            /\ pc = "live" /\ pc' = "render" => Running' /\ ~Stopped'
            /\ Stopped =>
                  /\ ~Running'
                  /\ UNCHANGED <<runRes, event, nRender, nPoll, frame, log>>]_vars

\* C11 witness: run returned Ok on an event that the second poll delivered;
\* the first poll found the queue empty.
C11_Witness ==
    /\ prog = "compositor_rs"
    /\ runRes = "Ok"
    /\ event = "MapNotify"
    /\ nPoll = 2
    /\ nRender = 2
    /\ pc = "exited"

\* C12: main.rs run, first call in the process, always terminates and returns
\* Ok: it never polls an event, no render result makes it fail, every turn
\* counts one render, and it returns after exactly 202 renders.
C12_MainRunTerminates ==
    /\ [](prog = "main_rs" =>
            /\ nPoll = 0 /\ event = "none"
            /\ runRes # "Err"
            /\ pc = "render" => runRes = "none" /\ I = nRender /\ nRender < 202
            /\ runRes = "Ok" => nRender = 202 /\ I = 202)
    /\ (prog = "main_rs" /\ pc = "render") ~> (runRes = "Ok")

\* C12 witness: run returned Ok although its last render failed.
C12_Witness ==
    /\ prog = "main_rs"
    /\ runRes = "Ok"
    /\ renderRes = "Err"
    /\ frame.acquire = "Lost"
    /\ nRender = 202

\* C13: after a successful new, and before any resize, the configuration's
\* width and height are the root screen's width_in_pixels and height_in_pixels
\* as read from the setup, whatever 16-bit values these are, and the
\* configuration applied to the surface is that configuration.
C13_ConfigIsScreenSize ==
    newRes = "Ok" /\ resized = <<>> =>
        /\ config.width = root_size[1]
        /\ config.height = root_size[2]
        /\ applied = config

\* C13 witness: a Compositor constructed on a screen whose two dimensions
\* differ, one of them the largest 16-bit value.
C13_Witness ==
    /\ newRes = "Ok"
    /\ resized = <<>>
    /\ root_size = <<1, U16Max>>
    /\ applied.height = U16Max

\* C14 (as claimed): in every state of a constructed Compositor, after any
\* sequence of resize calls, the configuration's width and height equal
\* root_size.
C14_ConfigEqualsRootSize ==
    newRes = "Ok" =>
        /\ config.width = root_size[1]
        /\ config.height = root_size[2]

\* C15: a resize(w, h) step, zero arguments included, sets the width and the
\* height of the configuration to w and h and applies that configuration to
\* the surface; the surface and the device are the ones new created (none is
\* created again), every other field of the configuration, the window
\* identifiers and root_size are unchanged, and no request is issued.  Between
\* resize calls the configuration of a constructed Compositor does not change.
C15_ResizeFrame ==
    [][/\ resized' # resized =>
             /\ newRes = "Ok"
             /\ config'.width = resized'[1]
             /\ config'.height = resized'[2]
             /\ applied' = config'
             /\ config'.usage = config.usage
             /\ config'.format = config.format
             /\ config'.present_mode = config.present_mode
             /\ config'.alpha_mode = config.alpha_mode
             /\ config'.view_formats = config.view_formats
             /\ config'.desired_maximum_frame_latency
                    = config.desired_maximum_frame_latency
             /\ surface = "live" /\ device = "live"
             /\ UNCHANGED <<surface, device, created, win_id, root, root_size, evs,
                            log, connOpen>>
       /\ newRes = "Ok" /\ resized' = resized => UNCHANGED <<config, applied>>]_vars

\* C15 witness: the Compositor was resized to a zero width and the largest
\* height, and that is the configuration the surface received.
C15_Witness ==
    /\ resized = <<0, U16Max>>
    /\ applied.width = 0
    /\ applied.height = U16Max
    /\ root_size = <<1, 1>>
    /\ created = [surfaces |-> 1, devices |-> 1]

\* The errors of new that come from the GPU side.
GpuFailures ==
    {"win_id.try_into", "create_surface", "No adapter found", "request_device",
     "No sRGB surface format found", "No supported usage found"}

\* The part of C16 that does not depend on which window ids the conversion
\* rejects: an empty format list and an empty alpha-mode list each make new
\* fail, with the message of that selection; whenever new fails with a
\* GPU-side error no Compositor is constructed and the surface was never
\* configured; a constructed Compositor has an adapter-backed device, a format
\* and an alpha mode.
GpuFailuresFatal ==
    /\ [](/\ newErr \in GpuFailures =>
               /\ newRes = "Err"
               /\ pc # "live"
               /\ applied = NoConfig /\ config = NoConfig
          /\ newRes = "Ok" =>
               /\ newErr = "none"
               /\ surface = "live" /\ device = "live"
               /\ config.format \in Formats
               /\ config.alpha_mode \in AlphaModes)
    /\ [][/\ pc = "select_format" /\ caps.formats = <<>> =>
                newErr' = "No sRGB surface format found"
          /\ pc = "configure" /\ caps.alpha_modes = <<>> =>
                newErr' = "No supported usage found"
          /\ pc = "request_adapter" /\ pc' # "request_device" =>
                newErr' = "No adapter found"
          /\ pc = "request_device" /\ device' # "live" =>
                newErr' = "request_device"]_vars

\* xproto::Window is a u32 and the native window handle is 32 bits wide:
\* every id the server can answer fits the width of the handle.
FitsHandleWidth(id) == id \in Windows

\* C16 (as claimed): the GPU-side failures are fatal, the conversion of the
\* overlay window id fails when the id is too large for the native handle,
\* and an id that fits the width of the handle never fails the conversion.
C16_ConversionFailsOnlyWhenTooLarge ==
    /\ GpuFailuresFatal
    /\ [](newErr = "win_id.try_into" => ~FitsHandleWidth(win_id))

\* C16 (amended): the GPU-side failures are fatal; the conversion of the
\* overlay window id fails exactly when the id is zero: a zero id makes new
\* fail at the creation of the surface, every nonzero 32-bit id converts.
C16_ConversionFailsExactlyOnZero ==
    /\ GpuFailuresFatal
    /\ [](/\ newErr = "win_id.try_into" => win_id = 0
          /\ surface # "none" => win_id \in Windows \ {0})
    /\ [][pc = "create_surface" /\ win_id = 0 =>
              newRes' = "Err" /\ surface' = "none"]_vars

\* C16 witness: the server answered get-overlay-window with the id 0 and new
\* failed at the conversion, before any surface existed.
C16_Witness ==
    /\ newRes = "Err"
    /\ newErr = "win_id.try_into"
    /\ win_id = 0
    /\ created.surfaces = 0
    /\ applied = NoConfig

\* run has dispatched an event: the record of the dispatch is the last one of
\* the log (nothing logs after run returned).
Dispatched == prog = "compositor_rs" /\ event # "none"
DispatchLevel == log[Len(log)][1]

\* The input and window-lifecycle kinds among the events the server delivers.
InputKinds ==
    {"ButtonPress", "KeyPress", "KeyRelease", "MotionNotify", "EnterNotify",
     "LeaveNotify", "FocusIn", "FocusOut", "MappingNotify"}
LifecycleKinds ==
    {"CreateNotify", "DestroyNotify", "MapNotify", "MapRequest", "UnmapNotify",
     "ReparentNotify", "ConfigureNotify", "VisibilityNotify", "PropertyNotify"}

\* C17 (as claimed): the dispatch logs at informational level exactly the
\* input and window-lifecycle kinds and the damage notification, and at
\* warning level every Error event and every Unknown event.
C17_InfoForInputLifecycleWarnForErrorUnknown ==
    Dispatched =>
        /\ DispatchLevel = "info"
              <=> event \in InputKinds \cup LifecycleKinds \cup {"DamageNotify"}
        /\ event \in {"Error", "Unknown"} => DispatchLevel = "warn"

\* C17 (amended): the dispatch logs at informational level exactly the
\* seventeen kinds that have an arm of their own and the Unknown event; it
\* logs at warning level the Error event and every other kind, the input kind
\* MotionNotify and the lifecycle kind ConfigureNotify among them.
C17_InfoForNamedAndUnknownWarnOtherwise ==
    Dispatched =>
        /\ DispatchLevel \in {"info", "warn"}
        /\ DispatchLevel = "info" <=>
              event \in {"Unknown", "ButtonPress", "CreateNotify", "DestroyNotify",
                         "EnterNotify", "FocusIn", "FocusOut", "KeyPress",
                         "KeyRelease", "LeaveNotify", "MapNotify", "MapRequest",
                         "MappingNotify", "PropertyNotify", "ReparentNotify",
                         "UnmapNotify", "VisibilityNotify", "DamageNotify"}
        /\ event = "Error" => log[Len(log)] = Warn("X11 Error")
        /\ event \in {"MotionNotify", "ConfigureNotify"} =>
              log[Len(log)] = Warn("Unhandled event")

\* C17 witness: an Unknown event was dispatched and logged at informational
\* level.
C17_Witness ==
    /\ Dispatched
    /\ event = "Unknown"
    /\ log[Len(log)] = Info("Unknown event")

\* The calls of a render that the frame consists of: the clear pass, the queue
\* submission and the present.
IsFrameStep(op) == op \in {"begin_render_pass", "submit", "present"}

\* C18: in both programs, whatever the number of renders before it, a render
\* whose frame acquisition succeeds returns Ok and performs after the one
\* acquisition, in this order and once each, the clear pass, the queue
\* submission and the present, the clear colour being the constant of the
\* program ((0.1, 0.2, 0.5, 1.0) in compositor.rs, (0.1, 0.2, 0.3, 1.0) in
\* main.rs, in tenths); a render whose acquisition fails (surface lost or
\* outdated) returns the error and submits and presents nothing.
C18_RenderFrame ==
    /\ nRender = 0 <=> frame.acquire = "none"
    /\ nRender = 0 <=> renderRes = "none"
    /\ renderRes = "Ok" <=> frame.acquire = "Ok"
    /\ renderRes = "Err" <=> frame.acquire \in {"Lost", "Outdated"}
    /\ frame.acquire = "Ok" =>
          /\ SelectSeq(frame.ops, IsFrameStep) = <<"begin_render_pass", "submit", "present">>
          /\ frame.clear = IF prog = "compositor_rs" THEN <<1, 2, 5, 10>> ELSE <<1, 2, 3, 10>>
    /\ frame.acquire # "Ok" => frame.ops = <<>> /\ frame.clear = <<>>

\* C18 witness: the second of two consecutive renders of compositor.rs
\* succeeded and presented a frame cleared to the constant.
C18_Witness ==
    /\ prog = "compositor_rs"
    /\ nRender = 2
    /\ renderRes = "Ok"
    /\ frame.ops[Len(frame.ops)] = "present"
    /\ frame.clear = <<1, 2, 5, 10>>

\* C19 (as claimed): whenever new has returned, with Ok or with an error,
\* after the server created the region, a destroy-region request for that
\* region has been issued.
C19_RegionDestroyedOnEveryPath ==
    (/\ newRes # "none"
     /\ \E i \in DOMAIN evs :
           evs[i].t = "ok" /\ evs[i].r = "XFixesCreateRegion" /\ evs[i].a = <<region>>)
    => \E j \in DOMAIN evs :
           IssuedAt(j) /\ evs[j].r = "XFixesDestroyRegion" /\ evs[j].a = <<region>>

\* f is the first sRGB format of the list fs.
FirstSrgbOf(f, fs) ==
    \E i \in 1..Len(fs) :
        /\ fs[i] = f
        /\ is_srgb(f)
        /\ \A j \in 1..(i - 1) : ~is_srgb(fs[j])

\* C20: for every reported list of formats, the selection step fails exactly
\* when the list is empty and otherwise chooses the first sRGB format in list
\* order if the list has one, else the first format; for every reported list
\* of alpha modes, the selection fails exactly when the list is empty and
\* otherwise the configuration gets the first alpha mode, with the format
\* chosen before.
C20_FormatAndAlphaSelection ==
    [][/\ pc = "select_format" =>
             LET fs == caps.formats IN
             /\ newRes' = "Err" <=> fs = <<>>
             /\ newErr' = "No sRGB surface format found" <=> fs = <<>>
             /\ fs # <<>> =>
                   /\ pc' = "configure"
                   /\ IF \E i \in 1..Len(fs) : is_srgb(fs[i])
                      THEN FirstSrgbOf(format', fs)
                      ELSE format' = fs[1]
       /\ pc = "configure" =>
             LET ms == caps.alpha_modes IN
             /\ newRes' = "Err" <=> ms = <<>>
             /\ newErr' = "No supported usage found" <=> ms = <<>>
             /\ ms # <<>> =>
                   /\ newRes' = "Ok"
                   /\ config'.alpha_mode = ms[1]
                   /\ config'.format = format]_vars

\* C20 witness: the list starts with a format that is not sRGB and the sRGB
\* format after it was chosen; the alpha modes are still to be selected.
C20_Witness ==
    /\ pc = "configure"
    /\ caps.formats = <<"Bgra8Unorm", "Rgba8UnormSrgb">>
    /\ format = "Rgba8UnormSrgb"
    /\ caps.alpha_modes = <<"PreMultiplied", "Opaque">>

\* The three ways run of compositor.rs can have returned.
RenderFailed == runRes = "Err" /\ renderRes = "Err"
PollFailed == runRes = "Err" /\ renderRes = "Ok" /\ nPoll = nRender /\ event = "none"
EventDelivered == runRes = "Ok" /\ event # "none"

\* C21: compositor.rs run leaves Running only by a failed render, a failed
\* poll or a delivered event: whenever run has returned, one of the three
\* happened; a successful render goes on to the poll and an empty poll goes
\* back to the render, and at every turn the render may succeed and the poll
\* may find no event, so that without one of the three the loop never stops.
C21_RunStopsOnlyOnFailureOrEvent ==
    /\ [](prog = "compositor_rs" =>
            /\ Stopped => RenderFailed \/ PollFailed \/ EventDelivered
            /\ pc = "render" /\ nRender < MaxIter =>
                  ENABLED (Run_render /\ renderRes' = "Ok" /\ pc' = "poll")
            /\ pc = "poll" =>
                  ENABLED (Run_poll /\ event' = "none" /\ pc' = "render"))
    /\ [][prog = "compositor_rs" =>
            /\ pc = "render" /\ nRender' # nRender /\ renderRes' = "Ok" =>
                  pc' = "poll" /\ ~Stopped'
            /\ pc = "poll" /\ nPoll' # nPoll /\ event' = "none" /\ runRes' # "Err" =>
                  pc' = "render" /\ ~Stopped'
            /\ Running /\ ~Running' => Stopped']_vars

\* C21 witness: every render so far succeeded and every poll found no event;
\* after as many turns as the model follows the loop is still Running.
C21_Witness ==
    /\ prog = "compositor_rs"
    /\ pc = "render"
    /\ nRender = MaxIter
    /\ nPoll = MaxIter
    /\ renderRes = "Ok"
    /\ ~Stopped

\* C22: the counter of main.rs run belongs to the process and never goes
\* back: the first call of run returns after 202 renders, every later call
\* starts with the counter above the bound, makes one render and returns with
\* it, so that after the return of the k-th call 202 + (k - 1) renders were
\* made in all.
C22_CounterNeverReset ==
    /\ [](prog = "main_rs" /\ calls >= 1 =>
            /\ runRes = "Ok" => nRender = 202 + (calls - 1) /\ I = nRender
            /\ pc = "render" /\ calls > 1 =>
                  /\ runRes = "none"
                  /\ I > 200
                  /\ nRender = 202 + (calls - 2))
    /\ [][prog = "main_rs" =>
            /\ I' >= I
            /\ calls > 1 /\ nRender' # nRender =>
                  /\ nRender' = nRender + 1
                  /\ runRes' = "Ok"
                  /\ pc' # "render"]_vars

\* C22 witness: the third call of run has returned, 204 renders were made.
C22_Witness ==
    /\ prog = "main_rs"
    /\ calls = 3
    /\ runRes = "Ok"
    /\ nRender = 204
    /\ I = 204

\* The server has answered request r with success.
Succeeded(r) == \E i \in DOMAIN evs : evs[i].t = "ok" /\ evs[i].r = r

\* C23: in compositor.rs the teardown belongs to a constructed Compositor
\* only: as long as new has not returned Ok, and for ever once it has returned
\* an error, whichever step failed and whatever was redirected or acquired
\* before, no unredirect-subwindows and no release-overlay-window request is
\* issued or attempted and no teardown task exists.
C23_TeardownOnlyWhenConstructed ==
    prog = "compositor_rs" /\ newRes # "Ok" =>
        /\ \A i \in DOMAIN evs : evs[i].r \notin TeardownRequests
        /\ taskpc = "none"
        /\ pc # "drop"

\* C23 witness: the subwindows were redirected and the overlay window was
\* acquired, new then failed at the selection of the alpha mode, and the
\* process has exited.
C23_Witness ==
    /\ prog = "compositor_rs"
    /\ Succeeded("CompositeRedirectSubwindows")
    /\ Succeeded("CompositeGetOverlayWindow")
    /\ newRes = "Err"
    /\ newErr = "No supported usage found"
    /\ pc = "exited"

====
